---- MODULE Spec2Model ----
(***************************************************************************)
(* Model of relayer/cmd/generate_beacon_data.go: the two cobra commands    *)
(* generate-beacon-checkpoint and generate-beacon-data.  One behaviour is  *)
(* one invocation of one command; every statement of the command that has  *)
(* an observable effect (client call, file write, sleep, print, log) is a  *)
(* step, so that the order of the effects can be stated.                   *)
(***************************************************************************)
EXTENDS Integers, Sequences, FiniteSets, TLC

(* ---------------------------- bounds ----------------------------------- *)
\* width of the unsigned slot type (uint64 in the source), scaled down
SlotBits == 4
\* spec settings of the configuration file, scaled down
MainnetSlotsInEpoch == 4
MainnetEpochsPerSyncCommitteePeriod == 2
MinimalSlotsInEpoch == 2
MinimalEpochsPerSyncCommitteePeriod == 3

Modulus == 2 ^ SlotBits
Slots == 0 .. (Modulus - 1)

\* unsigned arithmetic of the slot type
AddU(a, b) == (a + b) % Modulus
SubU(a, b) == (a - b + Modulus) % Modulus

(* ------------------------- hashes and hex ------------------------------ *)
\* a hash as the client returns it: a sequence of nibbles
Roots == { <<10>>, <<0, 11>> }

HexDigits == <<"0", "1", "2", "3", "4", "5", "6", "7",
               "8", "9", "a", "b", "c", "d", "e", "f">>

\* hex.EncodeToString: one character per nibble, no prefix
EncodeToString(bytes) == [i \in 1 .. Len(bytes) |-> HexDigits[bytes[i] + 1]]

\* the Hex() of the JSON conversions: the prefix "0x" and the digits
HexPrefix == <<"0", "x">>
Hex(bytes) == HexPrefix \o EncodeToString(bytes)

HasPrefix(s) == Len(s) >= 2 /\ SubSeq(s, 1, 2) = HexPrefix

\* removes the two-character prefix when it is present
removeLeadingZeroHash(s) == IF HasPrefix(s) THEN SubSeq(s, 3, Len(s)) ELSE s

\* RemoveLeadingZeroHashes of an artifact: every hash field is stripped
RemoveLeadingZeroHashes(a) == [a EXCEPT !.Root = removeLeadingZeroHash(@)]

(* --------------------------- configuration ----------------------------- *)
SpecFlags == {"mainnet", "minimal", "goerli"}

\* config.ToSpec: the active spec, or an error for an unknown identifier
ToSpecOk(spec) == spec \in {"mainnet", "minimal"}

IsMainnet(activeSpec) == activeSpec = "mainnet"

GetSpecSettingsBySpec(activeSpec) ==
    IF IsMainnet(activeSpec)
    THEN [SlotsInEpoch |-> MainnetSlotsInEpoch,
          EpochsPerSyncCommitteePeriod |-> MainnetEpochsPerSyncCommitteePeriod]
    ELSE [SlotsInEpoch |-> MinimalSlotsInEpoch,
          EpochsPerSyncCommitteePeriod |-> MinimalEpochsPerSyncCommitteePeriod]

\* syncer.ComputeSyncPeriodAtSlot
ComputeSyncPeriodAtSlot(settings, slot) ==
    slot \div (settings.SlotsInEpoch * settings.EpochsPerSyncCommitteePeriod)

(* ------------------------------ flags ---------------------------------- *)
\* the flags generateBeaconCheckpointCmd registers, with their defaults
CheckpointFlagDefaults == [x \in {"export-json"} |-> TRUE]

\* generateBeaconDataCmd registers no boolean flag
DataFlagDefaults == [x \in {} |-> TRUE]

\* pflag's GetBool: the value of a registered flag; the zero value (and an
\* error, which the caller drops) for a name that is not registered
GetBool(flags, name) == IF name \in DOMAIN flags THEN flags[name] ELSE FALSE

\* the name generateBeaconCheckpoint looks the flag up by
ExportJsonLookup == "export_json"

(* ------------------------------ files ---------------------------------- *)
pathToBeaconBenchmarkData == "parachain/pallets/ethereum-beacon-client/src/benchmarking"
pathToBeaconTestFixtureFiles == "parachain/pallets/ethereum-beacon-client/tests/fixtures"

\* fmt.Sprintf("%s/%s", directory, fmt.Sprintf("<base>.%s.json", spec))
FixturePath(base, activeSpec) == <<pathToBeaconTestFixtureFiles, base, activeSpec>>
DumpPath == <<pathToBeaconTestFixtureFiles, "dump-initial-checkpoint.json">>
BenchmarkPath == <<pathToBeaconBenchmarkData, "fixtures.rs">>

FixtureBases == <<"initial-checkpoint", "sync-committee-update",
                  "finalized-header-update", "execution-header-update">>

Paths == { FixturePath(FixtureBases[i], sp) : i \in 1 .. 4, sp \in {"mainnet", "minimal"} }
            \cup {DumpPath, BenchmarkPath}

Absent == [kind |-> "absent"]
Stale == [kind |-> "stale"]
Truncated == [kind |-> "truncated"]

\* the disk when a command starts: an earlier mainnet run left its files
DiskBefore ==
    [p \in Paths |-> IF p = BenchmarkPath \/ (Len(p) = 3 /\ p[3] = "mainnet")
                     THEN Stale ELSE Absent]

\* json.MarshalIndent of an artifact, as the bytes of a file
MarshalIndent(data) == [kind |-> "json", data |-> data]
TextFile(contents) == [kind |-> "text", data |-> contents]

\* the outcomes of os.OpenFile(O_RDWR|O_CREATE|O_TRUNC) followed by Write
WriteOutcomes == {"ok", "create", "write"}

\* the file system after OpenFile and Write ended with the outcome
FileAfterWrite(fs, path, bytes, outcome) ==
    CASE outcome = "create" -> fs
      [] outcome = "write"  -> [fs EXCEPT ![path] = Truncated]
      [] OTHER              -> [fs EXCEPT ![path] = bytes]

\* the error writeJSONToFile and writeBenchmarkDataFile return
WriteError(outcome) ==
    CASE outcome = "create" -> "create file"
      [] outcome = "write"  -> "write to file"
      [] OTHER              -> "nil"

(* ----------------------------- artifacts ------------------------------- *)
NoArtifact == [kind |-> "none"]

\* the ToJSON conversions: slots are copied, hashes become prefixed hex
ToJSON(a) == [a EXCEPT !.Root = Hex(@)]

\* the slots a finalized update of the client may carry for a checkpoint slot:
\* the slot before it, the slot itself and the slot after it
Offsets == {-1, 0, 1}
Window(slot) == { x \in Slots : x - slot \in Offsets }

(* ------------------------------- state --------------------------------- *)
VARIABLES
    cmd,                   \* the command that runs
    specFlag,              \* value of --spec
    flags,                 \* the boolean flags of the command line
    pc,                    \* position in the command
    activeSpec,
    err,                   \* error returned by the command's inner function
    result,                \* what RunE returned to cobra
    files,                 \* the file system
    stdout,                \* lines printed
    trace,                 \* the effects of the run, in order
    checkPointScale,       \* generateBeaconCheckpoint: the fetched checkpoint
    checkPointBytes,       \* generateBeaconCheckpoint: its encoding
    initialSync,
    initialSyncPeriod,
    syncCommitteePeriod,
    syncCommitteeUpdate,
    finalizedUpdateScale,
    finalizedUpdate,
    headerUpdate,
    rendered

vars == <<cmd, specFlag, flags, pc, activeSpec, err, result, files, stdout, trace,
          checkPointScale, checkPointBytes, initialSync, initialSyncPeriod,
          syncCommitteePeriod, syncCommitteeUpdate, finalizedUpdateScale,
          finalizedUpdate, headerUpdate, rendered>>

inputs == <<cmd, specFlag, flags>>
cpLocals == <<checkPointScale, checkPointBytes>>
artifacts == <<cpLocals, initialSync, initialSyncPeriod, syncCommitteePeriod,
               syncCommitteeUpdate, finalizedUpdateScale, finalizedUpdate,
               headerUpdate, rendered>>

Ev(op, arg, ok) == [op |-> op, arg |-> arg, ok |-> ok]

Init ==
    /\ cmd \in {"generate-beacon-checkpoint", "generate-beacon-data"}
    /\ specFlag \in SpecFlags
    /\ flags \in IF cmd = "generate-beacon-checkpoint"
                  THEN [DOMAIN CheckpointFlagDefaults -> BOOLEAN]
                  ELSE {DataFlagDefaults}
    /\ pc = IF cmd = "generate-beacon-data" THEN "bd_spec" ELSE "cp_spec"
    /\ activeSpec = "none"
    /\ err = "nil"
    /\ result = "running"
    /\ files = DiskBefore
    /\ stdout = <<>>
    /\ trace = <<>>
    /\ checkPointScale = NoArtifact
    /\ checkPointBytes = <<>>
    /\ initialSync = NoArtifact
    /\ initialSyncPeriod = 0
    /\ syncCommitteePeriod = 0
    /\ syncCommitteeUpdate = NoArtifact
    /\ finalizedUpdateScale = NoArtifact
    /\ finalizedUpdate = NoArtifact
    /\ headerUpdate = NoArtifact
    /\ rendered = <<>>

(* --------------------- generate-beacon-data ---------------------------- *)
BD_StagesValidateFirst ==
    <<"bd_spec", "bd_config", "bd_getCheckpoint", "bd_writeInitialSync",
      "bd_sleep", "bd_checkPeriod", "bd_getSyncCommitteeUpdate",
      "bd_writeSyncCommitteeUpdate", "bd_getFinalizedUpdate",
      "bd_checkFinalizedUpdate", "bd_writeFinalizedUpdate",
      "bd_getHeaderUpdate", "bd_writeHeaderUpdate", "bd_isMainnet",
      "bd_render", "bd_writeBenchmark", "bd_done">>

BD_StagesSleepFirst ==
    <<"bd_spec", "bd_config", "bd_getCheckpoint", "bd_sleep",
      "bd_writeInitialSync", "bd_checkPeriod", "bd_getSyncCommitteeUpdate",
      "bd_writeSyncCommitteeUpdate", "bd_getFinalizedUpdate",
      "bd_writeFinalizedUpdate", "bd_checkFinalizedUpdate",
      "bd_getHeaderUpdate", "bd_writeHeaderUpdate", "bd_isMainnet",
      "bd_render", "bd_writeBenchmark", "bd_done">>

\* the statements of generateBeaconData's inner function, in program order
BD_Stages == <<"bd_spec", "bd_config", "bd_getCheckpoint", "bd_writeInitialSync",
               "bd_sleep", "bd_checkPeriod", "bd_getSyncCommitteeUpdate",
               "bd_writeSyncCommitteeUpdate", "bd_getFinalizedUpdate",
               "bd_writeFinalizedUpdate", "bd_checkFinalizedUpdate",
               "bd_getHeaderUpdate", "bd_writeHeaderUpdate", "bd_isMainnet",
               "bd_render", "bd_writeBenchmark", "bd_done">>

\* the statement that follows a statement that did not return
BD_After(stage) ==
    LET i == CHOOSE k \in 1 .. Len(BD_Stages) : BD_Stages[k] = stage
    IN BD_Stages[i + 1]

\* the inner function returns e: control passes to the wrapper's error check
BD_Fail(e) == err' = e /\ pc' = "bd_return"
BD_Continue == err' = err /\ pc' = BD_After(pc)

\* GetString("spec") and config.ToSpec
BD_ToSpec ==
    /\ pc = "bd_spec"
    /\ IF ToSpecOk(specFlag)
       THEN activeSpec' = specFlag /\ BD_Continue
       ELSE activeSpec' = activeSpec /\ BD_Fail("get spec")
    /\ UNCHANGED <<inputs, result, files, stdout, trace, artifacts>>

\* viper.ReadInConfig and viper.Unmarshal, syncer.New
BD_ReadInConfig ==
    /\ pc = "bd_config"
    /\ \E ok \in BOOLEAN :
         IF ok
         THEN /\ BD_Continue
              /\ trace' = Append(trace, Ev("log.Info", "connecting to beacon API", TRUE))
         ELSE /\ BD_Fail("read config")
              /\ trace' = trace
    /\ UNCHANGED <<inputs, activeSpec, result, files, stdout, artifacts>>

\* s.GetCheckpoint and ToJSON
BD_GetCheckpoint ==
    /\ pc = "bd_getCheckpoint"
    /\ \E ok \in BOOLEAN, slot \in Slots, root \in Roots :
         /\ trace' = Append(trace, Ev("GetCheckpoint", <<>>, ok))
         /\ IF ok
            THEN /\ initialSync' = ToJSON([Slot |-> slot, Root |-> root])
                 /\ BD_Continue
            ELSE /\ initialSync' = initialSync
                 /\ BD_Fail("get initial sync")
    /\ UNCHANGED <<inputs, activeSpec, result, files, stdout, cpLocals,
                   initialSyncPeriod, syncCommitteePeriod, syncCommitteeUpdate,
                   finalizedUpdateScale, finalizedUpdate, headerUpdate, rendered>>

\* writeJSONToFile of the checkpoint, whose error is assigned and never read,
\* and initialSyncPeriod
BD_WriteInitialSync ==
    /\ pc = "bd_writeInitialSync"
    /\ \E outcome \in WriteOutcomes :
         LET path == FixturePath("initial-checkpoint", activeSpec)
         IN /\ files' = FileAfterWrite(files, path, MarshalIndent(initialSync), outcome)
            /\ trace' = trace \o <<Ev("writeJSONToFile", path, outcome),
                                   Ev("log.Info", "created initial sync file", TRUE)>>
    /\ initialSyncPeriod' = ComputeSyncPeriodAtSlot(GetSpecSettingsBySpec(activeSpec),
                                                    initialSync.Slot)
    /\ BD_Continue
    /\ UNCHANGED <<inputs, activeSpec, result, stdout, cpLocals, initialSync,
                   syncCommitteePeriod, syncCommitteeUpdate, finalizedUpdateScale,
                   finalizedUpdate, headerUpdate, rendered>>

\* the duration of the sleep, in seconds: 6 * time.Second * 5
SleepSeconds == 30

BD_SleepPoll ==
    /\ pc = "bd_sleep"
    /\ trace' = Append(trace, Ev("time.Sleep", SleepSeconds, TRUE))
    /\ \/ BD_Continue
       \/ UNCHANGED <<err, pc>>
    /\ UNCHANGED <<inputs, activeSpec, result, files, stdout, artifacts>>

\* time.Sleep
BD_Sleep ==
    /\ pc = "bd_sleep"
    /\ trace' = Append(trace, Ev("time.Sleep", SleepSeconds, TRUE))
    /\ BD_Continue
    /\ UNCHANGED <<inputs, activeSpec, result, files, stdout, artifacts>>

\* the number of slots the chain is taken to advance during the sleep
SlotAdvance == 5

PeriodConsistentNotBefore(initialPeriod, committeePeriod) ==
    initialPeriod <= committeePeriod

PeriodConsistentAlways(initialPeriod, committeePeriod) == TRUE

\* the test that lets the run go on to the sync committee update
PeriodConsistent(initialPeriod, committeePeriod) == initialPeriod = committeePeriod

\* syncCommitteePeriod and its comparison with initialSyncPeriod
BD_CheckPeriod ==
    /\ pc = "bd_checkPeriod"
    /\ LET period == ComputeSyncPeriodAtSlot(GetSpecSettingsBySpec(activeSpec),
                                             AddU(initialSync.Slot, SlotAdvance))
       IN /\ syncCommitteePeriod' = period
          /\ IF PeriodConsistent(initialSyncPeriod, period)
             THEN BD_Continue
             ELSE BD_Fail("initialSyncPeriod should be consistent with syncCommitteePeriod")
    /\ UNCHANGED <<inputs, activeSpec, result, files, stdout, trace, cpLocals,
                   initialSync, initialSyncPeriod, syncCommitteeUpdate,
                   finalizedUpdateScale, finalizedUpdate, headerUpdate, rendered>>

BD_GetSyncCommitteeUpdateRetry ==
    /\ pc = "bd_getSyncCommitteeUpdate"
    /\ \E ok \in BOOLEAN, root \in Roots :
         /\ trace' = Append(trace, Ev("GetSyncCommitteePeriodUpdate",
                                      syncCommitteePeriod, ok))
         /\ IF ok
            THEN /\ syncCommitteeUpdate' =
                      ToJSON([Period |-> syncCommitteePeriod, Root |-> root])
                 /\ BD_Continue
            ELSE /\ syncCommitteeUpdate' = syncCommitteeUpdate
                 /\ UNCHANGED <<err, pc>>
    /\ UNCHANGED <<inputs, activeSpec, result, files, stdout, cpLocals,
                   initialSync, initialSyncPeriod, syncCommitteePeriod,
                   finalizedUpdateScale, finalizedUpdate, headerUpdate, rendered>>

\* s.GetSyncCommitteePeriodUpdate(syncCommitteePeriod) and Payload.ToJSON
BD_GetSyncCommitteeUpdate ==
    /\ pc = "bd_getSyncCommitteeUpdate"
    /\ \E ok \in BOOLEAN, root \in Roots :
         /\ trace' = Append(trace, Ev("GetSyncCommitteePeriodUpdate",
                                      syncCommitteePeriod, ok))
         /\ IF ok
            THEN /\ syncCommitteeUpdate' =
                      ToJSON([Period |-> syncCommitteePeriod, Root |-> root])
                 /\ BD_Continue
            ELSE /\ syncCommitteeUpdate' = syncCommitteeUpdate
                 /\ BD_Fail("get sync committee update")
    /\ UNCHANGED <<inputs, activeSpec, result, files, stdout, cpLocals,
                   initialSync, initialSyncPeriod, syncCommitteePeriod,
                   finalizedUpdateScale, finalizedUpdate, headerUpdate, rendered>>

\* a writeJSONToFile whose error is returned: the sync committee update, the
\* finalized update and the header update
BD_WriteFixture(stage, base, data, wrapped, info) ==
    /\ pc = stage
    /\ \E outcome \in WriteOutcomes :
         LET path == FixturePath(base, activeSpec)
         IN /\ files' = FileAfterWrite(files, path, MarshalIndent(data), outcome)
            /\ IF WriteError(outcome) = "nil"
               THEN /\ trace' = trace \o <<Ev("writeJSONToFile", path, outcome),
                                           Ev("log.Info", info, TRUE)>>
                    /\ BD_Continue
               ELSE /\ trace' = Append(trace, Ev("writeJSONToFile", path, outcome))
                    /\ BD_Fail(wrapped)
    /\ UNCHANGED <<inputs, activeSpec, result, stdout, artifacts>>

BD_WriteSyncCommitteeUpdate ==
    BD_WriteFixture("bd_writeSyncCommitteeUpdate", "sync-committee-update",
                    syncCommitteeUpdate, "write sync committee update to file",
                    "created sync committee update file")

\* s.GetFinalizedUpdate and Payload.ToJSON
BD_GetFinalizedUpdate ==
    /\ pc = "bd_getFinalizedUpdate"
    /\ \E ok \in BOOLEAN, root \in Roots,
          attested \in Window(initialSync.Slot),
          finalized \in Window(initialSync.Slot),
          signature \in Window(initialSync.Slot) :
         /\ trace' = Append(trace, Ev("GetFinalizedUpdate", <<>>, ok))
         /\ IF ok
            THEN LET payload == [AttestedHeaderSlot |-> attested,
                                 FinalizedHeaderSlot |-> finalized,
                                 SignatureSlot |-> signature,
                                 Root |-> root]
                 IN /\ finalizedUpdateScale' = [Payload |-> payload,
                                                FinalizedHeaderBlockRoot |-> root,
                                                BlockRootsTree |-> <<root>>]
                    /\ finalizedUpdate' = ToJSON(payload)
                    /\ BD_Continue
            ELSE /\ UNCHANGED <<finalizedUpdateScale, finalizedUpdate>>
                 /\ BD_Fail("get finalized header update")
    /\ UNCHANGED <<inputs, activeSpec, result, files, stdout, cpLocals,
                   initialSync, initialSyncPeriod, syncCommitteePeriod,
                   syncCommitteeUpdate, headerUpdate, rendered>>

BD_WriteFinalizedUpdate ==
    BD_WriteFixture("bd_writeFinalizedUpdate", "finalized-header-update",
                    finalizedUpdate, "write finalized header update to file",
                    "created finalized header update file")

FinalizedUpdateErrorNotStrict(initialPeriod, updatePeriod, attestedSlot, initialSlot) ==
    IF initialPeriod # updatePeriod
    THEN "initialSyncPeriod should be consistent with finalizedUpdatePeriod"
    ELSE IF attestedSlot < initialSlot
         THEN "AttestedHeader slot should be greater than initialSyncHeaderSlot"
         ELSE "nil"

\* the two tests on the finalized update: the error they end with
FinalizedUpdateError(initialPeriod, updatePeriod, attestedSlot, initialSlot) ==
    IF initialPeriod # updatePeriod
    THEN "initialSyncPeriod should be consistent with finalizedUpdatePeriod"
    ELSE IF attestedSlot <= initialSlot
         THEN "AttestedHeader slot should be greater than initialSyncHeaderSlot"
         ELSE "nil"

\* finalizedUpdatePeriod and the two tests
BD_CheckFinalizedUpdate ==
    /\ pc = "bd_checkFinalizedUpdate"
    /\ LET finalizedUpdatePeriod ==
               ComputeSyncPeriodAtSlot(GetSpecSettingsBySpec(activeSpec),
                                       finalizedUpdate.SignatureSlot)
           e == FinalizedUpdateError(initialSyncPeriod, finalizedUpdatePeriod,
                                     finalizedUpdate.AttestedHeaderSlot,
                                     initialSync.Slot)
       IN IF e = "nil" THEN BD_Continue ELSE BD_Fail(e)
    /\ UNCHANGED <<inputs, activeSpec, result, files, stdout, trace, artifacts>>

\* blockUpdateSlot: two slots before the finalized header, in unsigned arithmetic
BlockUpdateSlot(scale) == SubU(scale.Payload.FinalizedHeaderSlot, 2)

\* the cache.Proof built from the finalized update
Proof(scale) == [FinalizedBlockRoot |-> scale.FinalizedHeaderBlockRoot,
                 BlockRootsTree |-> scale.BlockRootsTree,
                 Slot |-> scale.Payload.FinalizedHeaderSlot]

\* s.GetNextHeaderUpdateBySlotWithAncestryProof(blockUpdateSlot, checkPoint), ToJSON
BD_GetHeaderUpdate ==
    /\ pc = "bd_getHeaderUpdate"
    /\ \E ok \in BOOLEAN, root \in Roots :
         LET blockUpdateSlot == BlockUpdateSlot(finalizedUpdateScale)
             checkPoint == Proof(finalizedUpdateScale)
         IN /\ trace' = Append(trace, Ev("GetNextHeaderUpdateBySlotWithAncestryProof",
                                         [slot |-> blockUpdateSlot, proof |-> checkPoint],
                                         ok))
            /\ IF ok
               THEN /\ headerUpdate' = ToJSON([Slot |-> blockUpdateSlot, Root |-> root])
                    /\ BD_Continue
               ELSE /\ headerUpdate' = headerUpdate
                    /\ BD_Fail("get header update")
    /\ UNCHANGED <<inputs, activeSpec, result, files, stdout, cpLocals,
                   initialSync, initialSyncPeriod, syncCommitteePeriod,
                   syncCommitteeUpdate, finalizedUpdateScale, finalizedUpdate, rendered>>

BD_WriteHeaderUpdate ==
    BD_WriteFixture("bd_writeHeaderUpdate", "execution-header-update",
                    headerUpdate, "write block update to file",
                    "created header update file")

EmitsBenchmarkAlways(spec) == TRUE

\* whether the benchmark branch is taken
EmitsBenchmark(spec) == IsMainnet(spec)

BD_CanonicalizeSkipHeader ==
    /\ pc = "bd_isMainnet"
    /\ EmitsBenchmark(activeSpec)
    /\ initialSync' = RemoveLeadingZeroHashes(initialSync)
    /\ syncCommitteeUpdate' = RemoveLeadingZeroHashes(syncCommitteeUpdate)
    /\ finalizedUpdate' = RemoveLeadingZeroHashes(finalizedUpdate)
    /\ headerUpdate' = headerUpdate
    /\ trace' = trace \o <<Ev("log.Info", "now updating benchmarking data files", TRUE),
                           Ev("RemoveLeadingZeroHashes", <<>>, TRUE)>>
    /\ BD_Continue
    /\ UNCHANGED <<inputs, activeSpec, result, files, stdout, cpLocals,
                   initialSyncPeriod, syncCommitteePeriod, finalizedUpdateScale,
                   rendered>>

\* activeSpec.IsMainnet() holds: RemoveLeadingZeroHashes of the four artifacts
BD_Canonicalize ==
    /\ pc = "bd_isMainnet"
    /\ EmitsBenchmark(activeSpec)
    /\ initialSync' = RemoveLeadingZeroHashes(initialSync)
    /\ syncCommitteeUpdate' = RemoveLeadingZeroHashes(syncCommitteeUpdate)
    /\ finalizedUpdate' = RemoveLeadingZeroHashes(finalizedUpdate)
    /\ headerUpdate' = RemoveLeadingZeroHashes(headerUpdate)
    /\ trace' = trace \o <<Ev("log.Info", "now updating benchmarking data files", TRUE),
                           Ev("RemoveLeadingZeroHashes", <<>>, TRUE)>>
    /\ BD_Continue
    /\ UNCHANGED <<inputs, activeSpec, result, files, stdout, cpLocals,
                   initialSyncPeriod, syncCommitteePeriod, finalizedUpdateScale,
                   rendered>>

\* activeSpec.IsMainnet() does not hold: the branch is skipped
BD_SkipBenchmark ==
    /\ pc = "bd_isMainnet"
    /\ ~EmitsBenchmark(activeSpec)
    /\ pc' = "bd_done"
    /\ UNCHANGED <<inputs, activeSpec, err, result, files, stdout, trace, artifacts>>

\* the record handed to the template
Data == [CheckpointUpdate |-> initialSync,
         SyncCommitteeUpdate |-> syncCommitteeUpdate,
         FinalizedHeaderUpdate |-> finalizedUpdate,
         HeaderUpdate |-> headerUpdate]

\* the text of the template: the hash fields of the four artifacts
RenderFile(data) == <<data.CheckpointUpdate.Root, data.SyncCommitteeUpdate.Root,
                      data.FinalizedHeaderUpdate.Root, data.HeaderUpdate.Root>>

\* mustache.RenderFile, whose error is overwritten before it is read
BD_Render ==
    /\ pc = "bd_render"
    /\ \E ok \in BOOLEAN :
         /\ rendered' = IF ok THEN RenderFile(Data) ELSE <<>>
         /\ trace' = trace \o <<Ev("log.Info", "rendering file using mustache", TRUE),
                                Ev("mustache.RenderFile", <<>>, ok),
                                Ev("log.Info", "writing result file", TRUE)>>
    /\ BD_Continue
    /\ UNCHANGED <<inputs, activeSpec, result, files, stdout, cpLocals,
                   initialSync, initialSyncPeriod, syncCommitteePeriod,
                   syncCommitteeUpdate, finalizedUpdateScale, finalizedUpdate,
                   headerUpdate>>

\* writeBenchmarkDataFile(filename, rendered)
BD_WriteBenchmark ==
    /\ pc = "bd_writeBenchmark"
    /\ \E outcome \in WriteOutcomes :
         /\ files' = FileAfterWrite(files, BenchmarkPath, TextFile(rendered), outcome)
         /\ trace' = Append(trace, Ev("writeBenchmarkDataFile", BenchmarkPath, outcome))
         /\ IF WriteError(outcome) = "nil"
            THEN BD_Continue
            ELSE BD_Fail(WriteError(outcome))
    /\ UNCHANGED <<inputs, activeSpec, result, stdout, artifacts>>

\* log "done" and return nil
BD_Done ==
    /\ pc = "bd_done"
    /\ trace' = Append(trace, Ev("log.Info", "done", TRUE))
    /\ err' = "nil"
    /\ pc' = "bd_return"
    /\ UNCHANGED <<inputs, activeSpec, result, files, stdout, artifacts>>

BD_ResultPropagated(e) == e

\* what the command returns to cobra when its inner function returned e
BD_Result(e) == "nil"

BD_ReturnRollback ==
    /\ pc = "bd_return"
    /\ trace' = IF err # "nil"
                THEN Append(trace, Ev("log.Error", "error generating beacon data", TRUE))
                ELSE trace
    /\ files' = IF err # "nil" THEN DiskBefore ELSE files
    /\ result' = BD_Result(err)
    /\ pc' = "exit"
    /\ UNCHANGED <<inputs, activeSpec, err, stdout, artifacts>>

\* the wrapper: the error is logged, and nil is returned
BD_Return ==
    /\ pc = "bd_return"
    /\ trace' = IF err # "nil"
                THEN Append(trace, Ev("log.Error", "error generating beacon data", TRUE))
                ELSE trace
    /\ result' = BD_Result(err)
    /\ pc' = "exit"
    /\ UNCHANGED <<inputs, activeSpec, err, files, stdout, artifacts>>

(* ------------------ generate-beacon-checkpoint ------------------------- *)
CP_Stages == <<"cp_spec", "cp_config", "cp_getCheckpoint", "cp_exportJson",
               "cp_encode", "cp_print">>

CP_After(stage) ==
    LET i == CHOOSE k \in 1 .. Len(CP_Stages) : CP_Stages[k] = stage
    IN CP_Stages[i + 1]

CP_Fail(e) == err' = e /\ pc' = "cp_return"
CP_Continue == err' = err /\ pc' = CP_After(pc)

\* GetString("spec") and config.ToSpec
CP_ToSpec ==
    /\ pc = "cp_spec"
    /\ IF ToSpecOk(specFlag)
       THEN activeSpec' = specFlag /\ CP_Continue
       ELSE activeSpec' = activeSpec /\ CP_Fail("get spec")
    /\ UNCHANGED <<inputs, result, files, stdout, trace, artifacts>>

\* viper.ReadInConfig and viper.Unmarshal, syncer.New
CP_ReadInConfig ==
    /\ pc = "cp_config"
    /\ \E ok \in BOOLEAN : IF ok THEN CP_Continue ELSE CP_Fail("read config")
    /\ UNCHANGED <<inputs, activeSpec, result, files, stdout, trace, artifacts>>

\* s.GetCheckpoint
CP_GetCheckpoint ==
    /\ pc = "cp_getCheckpoint"
    /\ \E ok \in BOOLEAN, slot \in Slots, root \in Roots :
         /\ trace' = Append(trace, Ev("GetCheckpoint", <<>>, ok))
         /\ IF ok
            THEN /\ checkPointScale' = [Slot |-> slot, Root |-> root]
                 /\ CP_Continue
            ELSE /\ checkPointScale' = checkPointScale
                 /\ CP_Fail("get initial sync")
    /\ UNCHANGED <<inputs, activeSpec, result, files, stdout, checkPointBytes,
                   initialSync, initialSyncPeriod, syncCommitteePeriod,
                   syncCommitteeUpdate, finalizedUpdateScale, finalizedUpdate,
                   headerUpdate, rendered>>

\* exportJson: the flag as generateBeaconCheckpoint reads it
ExportJson(fl) == GetBool(fl, ExportJsonLookup)

\* GetBool and, when it yields true, ToJSON and writeJSONToFile
CP_ExportJson ==
    /\ pc = "cp_exportJson"
    /\ IF ExportJson(flags)
       THEN \E outcome \in WriteOutcomes :
              /\ initialSync' = ToJSON(checkPointScale)
              /\ files' = FileAfterWrite(files, DumpPath,
                                         MarshalIndent(ToJSON(checkPointScale)), outcome)
              /\ trace' = Append(trace, Ev("writeJSONToFile", DumpPath, outcome))
              /\ IF WriteError(outcome) = "nil"
                 THEN CP_Continue
                 ELSE CP_Fail("write initial sync to file")
       ELSE /\ UNCHANGED <<initialSync, files, trace>>
            /\ CP_Continue
    /\ UNCHANGED <<inputs, activeSpec, result, stdout, cpLocals, initialSyncPeriod,
                   syncCommitteePeriod, syncCommitteeUpdate, finalizedUpdateScale,
                   finalizedUpdate, headerUpdate, rendered>>

\* the encoding of a checkpoint: the slot, then the root
Encoding(cp) == <<cp.Slot \div 16, cp.Slot % 16>> \o cp.Root

\* the bytes types.EncodeToBytes returns: the whole encoding, or, with an
\* error, what the encoder had written when it failed
EncodedBytes(cp, ok) ==
    IF ok THEN {Encoding(cp)}
    ELSE { SubSeq(Encoding(cp), 1, n) : n \in 0 .. (Len(Encoding(cp)) - 1) }

\* types.EncodeToBytes, whose error is discarded
CP_Encode ==
    /\ pc = "cp_encode"
    /\ \E ok \in BOOLEAN :
         /\ checkPointBytes' \in EncodedBytes(checkPointScale, ok)
         /\ trace' = Append(trace, Ev("EncodeToBytes", <<>>, ok))
    /\ CP_Continue
    /\ UNCHANGED <<inputs, activeSpec, result, files, stdout, checkPointScale,
                   initialSync, initialSyncPeriod, syncCommitteePeriod,
                   syncCommitteeUpdate, finalizedUpdateScale, finalizedUpdate,
                   headerUpdate, rendered>>

\* call index of EthereumBeaconClient.force_checkpoint
checkPointCallIndex == <<"0", "x", "3", "2", "0", "0">>

\* fmt.Println(checkPointUpdateCall) and return nil
CP_Print ==
    /\ pc = "cp_print"
    /\ stdout' = Append(stdout, checkPointCallIndex \o EncodeToString(checkPointBytes))
    /\ trace' = Append(trace, Ev("fmt.Println", <<>>, TRUE))
    /\ err' = "nil"
    /\ pc' = "cp_return"
    /\ UNCHANGED <<inputs, activeSpec, result, files, artifacts>>

\* what the command returns to cobra when its inner function returned e
CP_Result(e) == "nil"

\* the wrapper: the error is logged, and nil is returned
CP_Return ==
    /\ pc = "cp_return"
    /\ trace' = IF err # "nil"
                THEN Append(trace, Ev("log.Error", "error generating beacon checkpoint",
                                      TRUE))
                ELSE trace
    /\ result' = CP_Result(err)
    /\ pc' = "exit"
    /\ UNCHANGED <<inputs, activeSpec, err, files, stdout, artifacts>>

(* ------------------------- specification ------------------------------- *)
Next ==
    \/ BD_ToSpec \/ BD_ReadInConfig \/ BD_GetCheckpoint \/ BD_WriteInitialSync
    \/ BD_Sleep \/ BD_CheckPeriod \/ BD_GetSyncCommitteeUpdate
    \/ BD_WriteSyncCommitteeUpdate \/ BD_GetFinalizedUpdate
    \/ BD_WriteFinalizedUpdate \/ BD_CheckFinalizedUpdate \/ BD_GetHeaderUpdate
    \/ BD_WriteHeaderUpdate \/ BD_Canonicalize \/ BD_SkipBenchmark \/ BD_Render
    \/ BD_WriteBenchmark \/ BD_Done \/ BD_Return
    \/ CP_ToSpec \/ CP_ReadInConfig \/ CP_GetCheckpoint \/ CP_ExportJson
    \/ CP_Encode \/ CP_Print \/ CP_Return

Spec == Init /\ [][Next]_vars

(* ------------------------ reading the trace ---------------------------- *)
Events(op) == { i \in 1 .. Len(trace) : trace[i].op = op }
Called(op) == Events(op) # {}

\* the positions of the attempts to write a file, and of those that succeeded
WriteOps == {"writeJSONToFile", "writeBenchmarkDataFile"}
Writes(path) == { i \in 1 .. Len(trace) : trace[i].op \in WriteOps /\ trace[i].arg = path }
WritesOk(path) == { i \in Writes(path) : trace[i].ok = "ok" }

InData == cmd = "generate-beacon-data"
InCheckpoint == cmd = "generate-beacon-checkpoint"
Exited == pc = "exit"

Settings == GetSpecSettingsBySpec(activeSpec)
SyncFixture == FixturePath("sync-committee-update", activeSpec)
FinalizedFixture == FixturePath("finalized-header-update", activeSpec)
HeaderFixture == FixturePath("execution-header-update", activeSpec)
InitialFixture == FixturePath("initial-checkpoint", activeSpec)

PeriodDriftError == "initialSyncPeriod should be consistent with syncCommitteePeriod"
FinalizedErrors == {"initialSyncPeriod should be consistent with finalizedUpdatePeriod",
                    "AttestedHeader slot should be greater than initialSyncHeaderSlot"}

\* the checkpoint of a generate-beacon-data run has been fetched
HasCheckpoint == InData /\ initialSync # NoArtifact
CheckpointSlot == initialSync.Slot

\* syncPeriod(S) differs from syncPeriod(S + 5)
PeriodDrift ==
    ComputeSyncPeriodAtSlot(Settings, CheckpointSlot)
        # ComputeSyncPeriodAtSlot(Settings, AddU(CheckpointSlot, SlotAdvance))

(* C1: when the sync period of the checkpoint slot S differs from that of    *)
(* S + 5, the run ends with the period-drift error, the sync committee       *)
(* update is never fetched and no sync-committee-update, finalized-header-   *)
(* update, execution-header-update or benchmark file is written; and every   *)
(* fetch of the sync committee update is for the period of S.                *)
C1_PeriodDriftAborts ==
    HasCheckpoint =>
      /\ PeriodDrift =>
           /\ ~Called("GetSyncCommitteePeriodUpdate")
           /\ Writes(SyncFixture) = {} /\ Writes(FinalizedFixture) = {}
           /\ Writes(HeaderFixture) = {} /\ Writes(BenchmarkPath) = {}
           /\ pc \in {"bd_writeInitialSync", "bd_sleep", "bd_checkPeriod",
                      "bd_return", "exit"}
           /\ (pc \in {"bd_return", "exit"} => err = PeriodDriftError)
      /\ \A i \in Events("GetSyncCommitteePeriodUpdate") :
           trace[i].arg = ComputeSyncPeriodAtSlot(Settings, CheckpointSlot)

C1_Witness ==
    /\ HasCheckpoint /\ PeriodDrift /\ Exited
    /\ err = PeriodDriftError
    /\ Writes(InitialFixture) # {}

\* the finalized update of a generate-beacon-data run has been fetched
HasFinalized == InData /\ finalizedUpdate # NoArtifact

\* the two invariants of the finalized update
FinalizedValid ==
    /\ ComputeSyncPeriodAtSlot(Settings, finalizedUpdate.SignatureSlot)
         = ComputeSyncPeriodAtSlot(Settings, CheckpointSlot)
    /\ finalizedUpdate.AttestedHeaderSlot > CheckpointSlot

HeaderFetch == "GetNextHeaderUpdateBySlotWithAncestryProof"

C3_ValidatedBeforeSerialized ==
    (InData /\ WritesOk(FinalizedFixture) # {}) =>
        (FinalizedValid /\ err \notin FinalizedErrors)

(* C3, amended: the finalized update is serialized before it is validated.   *)
(* The two invariants are tested only once the fixture has been written, so  *)
(* a run that aborts with a finalized-update consistency error has written   *)
(* the fixture, which then holds the rejected update; the header update is   *)
(* fetched only after the fixture was written and both invariants held.      *)
C3_SerializedBeforeValidated ==
    InData =>
      /\ err \in FinalizedErrors =>
           /\ WritesOk(FinalizedFixture) # {}
           /\ files[FinalizedFixture] = MarshalIndent(finalizedUpdate)
           /\ ~FinalizedValid
      /\ pc = "bd_checkFinalizedUpdate" => WritesOk(FinalizedFixture) # {}
      /\ \A i \in Events(HeaderFetch) :
           /\ FinalizedValid
           /\ \E j \in WritesOk(FinalizedFixture) : j < i

C3_Witness ==
    /\ InData /\ Exited
    /\ err \in FinalizedErrors
    /\ files[FinalizedFixture] = MarshalIndent(finalizedUpdate)
    /\ HasPrefix(finalizedUpdate.Root)

ClientOps == {"GetCheckpoint", "GetSyncCommitteePeriodUpdate", "GetFinalizedUpdate",
              HeaderFetch}

(* C4, as stated: a failed write of any of the four JSON fixtures is fatal:  *)
(* no client fetch, fixture write or benchmark rendering follows it.         *)
C4_FixtureWriteFailureFatal ==
    InData =>
      \A i \in Events("writeJSONToFile") :
        trace[i].ok # "ok" =>
          \A j \in (i + 1) .. Len(trace) :
            trace[j].op \notin (ClientOps \cup WriteOps \cup {"mustache.RenderFile"})

(* C5, as stated: the payload is printed only if the checkpoint fetch and    *)
(* the encoding both succeeded; when either fails nothing is printed and the *)
(* error is logged.                                                          *)
C5_PrintedOnlyIfEncoded ==
    InCheckpoint =>
      /\ stdout # <<>> =>
           /\ \E i \in Events("GetCheckpoint") : trace[i].ok
           /\ \E i \in Events("EncodeToBytes") : trace[i].ok
      /\ (Exited /\ \E i \in Events("GetCheckpoint") \cup Events("EncodeToBytes") :
                       ~trace[i].ok)
           => (stdout = <<>> /\ Called("log.Error"))

(* C6, as stated: after a successful checkpoint fetch the JSON fixture is    *)
(* written if and only if the export-json flag is true.                      *)
C6_JsonWrittenIffFlag ==
    (InCheckpoint /\ pc \in {"cp_encode", "cp_print", "cp_return", "exit"}
       /\ \E i \in Events("GetCheckpoint") : trace[i].ok)
      => (Writes(DumpPath) # {} <=> flags["export-json"])

\* every client call and every file write of the run succeeded
AllCallsSucceeded ==
    \A i \in 1 .. Len(trace) :
      /\ trace[i].op \in ClientOps => trace[i].ok
      /\ trace[i].op \in WriteOps => trace[i].ok = "ok"

\* the files the run wrote or tried to write, in order
WrittenPaths ==
    LET w == SelectSeq(trace, LAMBDA e : e.op \in WriteOps)
    IN [i \in 1 .. Len(w) |-> w[i].arg]

FourFixtures == <<InitialFixture, SyncFixture, FinalizedFixture, HeaderFixture>>

(* C7: a run in which every client call and file write succeeds and the      *)
(* invariants hold writes the four JSON fixtures, in the order initial-      *)
(* checkpoint, sync-committee-update, finalized-header-update, execution-    *)
(* header-update, and nothing else but, on mainnet only, the rendered        *)
(* benchmark file; on a spec other than mainnet no run renders or writes the *)
(* benchmark file.                                                           *)
C7_FourFixturesAndBenchmarkIffMainnet ==
    InData =>
      /\ (Exited /\ Called("GetCheckpoint") /\ AllCallsSucceeded
            /\ ~PeriodDrift /\ (HasFinalized => FinalizedValid)) =>
           /\ err = "nil"
           /\ WrittenPaths = IF activeSpec = "mainnet"
                             THEN Append(FourFixtures, BenchmarkPath)
                             ELSE FourFixtures
           /\ Called("mustache.RenderFile") <=> activeSpec = "mainnet"
           /\ \A i \in 1 .. 4 : files[FourFixtures[i]].kind = "json"
           /\ files[BenchmarkPath] = IF activeSpec = "mainnet"
                                     THEN TextFile(rendered)
                                     ELSE DiskBefore[BenchmarkPath]
      /\ activeSpec # "mainnet" =>
           (~Called("mustache.RenderFile") /\ Writes(BenchmarkPath) = {})

C7_Witness ==
    /\ InData /\ Exited /\ activeSpec = "mainnet" /\ err = "nil"
    /\ AllCallsSucceeded
    /\ WrittenPaths = Append(FourFixtures, BenchmarkPath)
    /\ files[BenchmarkPath].kind = "text"

(* C8: both commands return nil to their caller whatever happened: when the  *)
(* inner function returned an error, the error is logged and nil is          *)
(* returned, as after a run without error.                                   *)
C8_AlwaysReportsSuccess ==
    /\ result \in {"running", "nil"}
    /\ Exited =>
         /\ result = "nil"
         /\ err # "nil" => trace[Len(trace)].op = "log.Error"
         /\ err = "nil" => ~Called("log.Error")

C8_Witness ==
    /\ InData /\ Exited
    /\ err = "write block update to file"
    /\ result = "nil"

(* C9, as stated: the target slot of the header-update fetch is the          *)
(* finalized header slot F less two, hence strictly smaller than F, and the  *)
(* Proof passed with it carries Slot = F.                                    *)
C9_TargetSlotBelowFinalized ==
    InData =>
      \A i \in Events(HeaderFetch) :
        LET F == finalizedUpdateScale.Payload.FinalizedHeaderSlot
        IN /\ trace[i].arg.slot = F - 2
           /\ trace[i].arg.slot < F
           /\ trace[i].arg.proof.Slot = F

(* C10, as stated: the hashes are stripped only on mainnet and only after    *)
(* all four JSON fixtures have been written, no JSON fixture is written      *)
(* after that, and at the end of a run every fixture the run wrote holds     *)
(* the prefixed form.                                                        *)
C10_CanonicalizeAfterAllFixtures ==
    InData =>
      /\ \A i \in Events("RemoveLeadingZeroHashes") :
           /\ activeSpec = "mainnet"
           /\ \A k \in 1 .. 4 : \E j \in WritesOk(FourFixtures[k]) : j < i
           /\ \A j \in Events("writeJSONToFile") : j < i
      /\ Exited =>
           \A k \in 1 .. 4 :
             WritesOk(FourFixtures[k]) # {} =>
               /\ files[FourFixtures[k]].kind = "json"
               /\ HasPrefix(files[FourFixtures[k]].data.Root)

\* the four artifacts a generate-beacon-data run holds in memory
InMemory == <<initialSync, syncCommitteeUpdate, finalizedUpdate, headerUpdate>>

(* C11: canonicalization is idempotent on the artifacts of a run: stripping  *)
(* the stripped artifact changes nothing, whether the artifact still carries *)
(* its prefix or has already been stripped; and from the canonicalization on *)
(* no hash field of the record handed to the renderer, nor of the rendered   *)
(* text, carries the two-character prefix.                                   *)
C11_CanonicalizeIdempotent ==
    (InData /\ pc \in {"bd_isMainnet", "bd_render", "bd_writeBenchmark", "bd_done"}) =>
      /\ \A k \in 1 .. 4 :
           RemoveLeadingZeroHashes(RemoveLeadingZeroHashes(InMemory[k]))
             = RemoveLeadingZeroHashes(InMemory[k])
      /\ Called("RemoveLeadingZeroHashes") =>
           /\ \A k \in 1 .. 4 :
                /\ ~HasPrefix(InMemory[k].Root)
                /\ RemoveLeadingZeroHashes(InMemory[k]) = InMemory[k]
           /\ ~HasPrefix(Data.CheckpointUpdate.Root)
           /\ ~HasPrefix(Data.SyncCommitteeUpdate.Root)
           /\ ~HasPrefix(Data.FinalizedHeaderUpdate.Root)
           /\ ~HasPrefix(Data.HeaderUpdate.Root)
           /\ \A i \in 1 .. Len(rendered) : ~HasPrefix(rendered[i])

C11_Witness ==
    /\ InData /\ pc = "bd_writeBenchmark"
    /\ Called("RemoveLeadingZeroHashes")
    /\ Len(rendered) = 4
    /\ initialSync.Root = <<"0", "b">>
    /\ files[InitialFixture] = MarshalIndent([initialSync EXCEPT !.Root = <<"0", "x", "0", "b">>])

\* the error generateBeaconData returns when a fetch of the client fails
FetchError(op) ==
    CASE op = "GetCheckpoint" -> "get initial sync"
      [] op = "GetSyncCommitteePeriodUpdate" -> "get sync committee update"
      [] op = "GetFinalizedUpdate" -> "get finalized header update"
      [] OTHER -> "get header update"

EffectOps == ClientOps \cup WriteOps \cup {"mustache.RenderFile"}

(* C12: in a generate-beacon-data run each of the four fetches of the client *)
(* is made at most once, and a fetch that fails ends the run at once: the    *)
(* inner function returns that fetch's error, and no fetch, file write or    *)
(* rendering follows it.                                                     *)
C12_NoRetries ==
    InData =>
      /\ \A op \in ClientOps : Cardinality(Events(op)) <= 1
      /\ \A i \in 1 .. Len(trace) :
           (trace[i].op \in ClientOps /\ ~trace[i].ok) =>
             /\ pc \in {"bd_return", "exit"}
             /\ err = FetchError(trace[i].op)
             /\ \A j \in (i + 1) .. Len(trace) : trace[j].op \notin EffectOps

C12_Witness ==
    /\ InData /\ Exited
    /\ err = "get finalized header update"
    /\ Cardinality(Events("GetFinalizedUpdate")) = 1
    /\ WritesOk(SyncFixture) # {}
    /\ Writes(FinalizedFixture) = {}

\* the file holds the serialization of the artifact, hashes prefixed
HoldsFixture(file, artifact) ==
    /\ file.kind = "json"
    /\ HasPrefix(file.data.Root)
    /\ RemoveLeadingZeroHashes(file.data) = RemoveLeadingZeroHashes(artifact)

\* the file at a path is what the one write of the run to that path left
LeftByWrite(p, i) ==
    CASE trace[i].ok = "create" -> files[p] = DiskBefore[p]
      [] trace[i].ok = "write"  -> files[p] = Truncated
      [] OTHER ->
           IF p = BenchmarkPath
           THEN files[p] = TextFile(rendered)
           ELSE \E k \in 1 .. 4 : /\ p = FourFixtures[k]
                                  /\ HoldsFixture(files[p], InMemory[k])

(* C13: nothing is rolled back.  In every state of a generate-beacon-data    *)
(* run, and so after an abort at any stage, a file the run has not written   *)
(* is as it was before the run, and a file the run has written is as its one *)
(* write left it: a fixture written by an earlier stage still holds that     *)
(* stage's artifact, in the prefixed form.                                   *)
C13_NoRollback ==
    InData =>
      LET written == { i \in 1 .. Len(trace) : trace[i].op \in WriteOps }
      IN /\ \A p \in Paths :
              (\A i \in written : trace[i].arg # p) => files[p] = DiskBefore[p]
         /\ \A i, j \in written : trace[i].arg = trace[j].arg => i = j
         /\ \A i \in written : LeftByWrite(trace[i].arg, i)

C13_Witness ==
    /\ InData /\ Exited /\ activeSpec = "mainnet"
    /\ err = "get header update"
    /\ HoldsFixture(files[InitialFixture], initialSync)
    /\ HoldsFixture(files[SyncFixture], syncCommitteeUpdate)
    /\ HoldsFixture(files[FinalizedFixture], finalizedUpdate)
    /\ files[HeaderFixture] = Stale
    /\ files[BenchmarkPath] = Stale

\* the fetches, writes, the wait and the canonicalization of the run, in order
Effects ==
    LET e == SelectSeq(trace, LAMBDA x : x.op \in EffectOps
                                \cup {"time.Sleep", "RemoveLeadingZeroHashes"})
    IN [i \in 1 .. Len(e) |->
          IF e[i].op \in WriteOps THEN <<e[i].op, e[i].arg>> ELSE <<e[i].op>>]

\* the order of the stages of generate-beacon-data
StageOrder ==
    << <<"GetCheckpoint">>, <<"writeJSONToFile", InitialFixture>>, <<"time.Sleep">>,
       <<"GetSyncCommitteePeriodUpdate">>, <<"writeJSONToFile", SyncFixture>>,
       <<"GetFinalizedUpdate">>, <<"writeJSONToFile", FinalizedFixture>>,
       <<HeaderFetch>>, <<"writeJSONToFile", HeaderFixture>>,
       <<"RemoveLeadingZeroHashes">>, <<"mustache.RenderFile">>,
       <<"writeBenchmarkDataFile", BenchmarkPath>> >>

(* C14: the stages of generate-beacon-data run one after the other in the    *)
(* order checkpoint fetch, checkpoint fixture write, wait, period check,     *)
(* sync committee update fetch and write, finalized update fetch and write,  *)
(* header update fetch and write and, on mainnet only, canonicalization,     *)
(* rendering and benchmark write: what a run has done is always an initial   *)
(* part of that order.  The period check comes after the wait and before the *)
(* sync committee update fetch, and a run that got past the checkpoint fetch *)
(* waits exactly once.                                                       *)
C14_StagesInOrder ==
    InData =>
      /\ Len(Effects) <= Len(StageOrder)
      /\ \A i \in 1 .. Len(Effects) : Effects[i] = StageOrder[i]
      /\ Called("RemoveLeadingZeroHashes") => activeSpec = "mainnet"
      /\ pc = "bd_checkPeriod" =>
           (Len(Effects) = 3 /\ err = "nil")
      /\ err = PeriodDriftError => Len(Effects) = 3
      /\ (Exited /\ \E i \in Events("GetCheckpoint") : trace[i].ok) =>
           Cardinality(Events("time.Sleep")) = 1

C14_Witness ==
    /\ InData /\ Exited /\ activeSpec = "mainnet"
    /\ Effects = StageOrder
    /\ \E i \in WritesOk(InitialFixture), j \in Events("time.Sleep"),
          k \in Events("GetSyncCommitteePeriodUpdate") : i < j /\ j < k

(* C15, as stated: on mainnet, when rendering the template fails the         *)
(* benchmark file is not created, truncated or overwritten, and the run ends *)
(* with a logged error and not with the completion message.                  *)
C15_RenderFailureHalts ==
    (InData /\ \E i \in Events("mustache.RenderFile") : ~trace[i].ok) =>
      /\ Writes(BenchmarkPath) = {}
      /\ files[BenchmarkPath] = DiskBefore[BenchmarkPath]
      /\ pc \in {"bd_writeBenchmark", "bd_return", "exit"}
      /\ \A i \in Events("log.Info") : trace[i].arg # "done"
      /\ Exited => (err # "nil" /\ Called("log.Error"))

\* the length of a sync committee period, in slots
SlotsPerPeriod == Settings.SlotsInEpoch * Settings.EpochsPerSyncCommitteePeriod

\* the checkpoint slot is among the last five slots of its period
InLastSlotsOfPeriod ==
    CheckpointSlot % SlotsPerPeriod >= SlotsPerPeriod - SlotAdvance

\* the run has taken the period-drift decision
PeriodDecided ==
    HasCheckpoint /\ pc \notin {"bd_writeInitialSync", "bd_sleep", "bd_checkPeriod"}

(* C16, as stated: with P slots in a period, P >= 5, the run aborts with the *)
(* period-drift error if and only if S mod P >= P - 5, for every checkpoint  *)
(* slot S.                                                                   *)
C16_DriftIffLastFiveSlots ==
    (PeriodDecided /\ SlotsPerPeriod >= SlotAdvance) =>
        (err = PeriodDriftError <=> InLastSlotsOfPeriod)

(* C16, amended: the run aborts with the period-drift error if and only if   *)
(* the period of S differs from the period of S + 5 computed in the unsigned *)
(* arithmetic of the slot type, whatever the later fetches return; when      *)
(* P >= 5, and S + 5 does not wrap or P divides the size of the slot type,   *)
(* that is if and only if S mod P >= P - 5.                                  *)
C16_DriftDecision ==
    PeriodDecided =>
      /\ err = PeriodDriftError <=>
           (CheckpointSlot \div SlotsPerPeriod)
              # (((CheckpointSlot + SlotAdvance) % Modulus) \div SlotsPerPeriod)
      /\ (/\ SlotsPerPeriod >= SlotAdvance
          /\ \/ CheckpointSlot + SlotAdvance < Modulus
             \/ Modulus % SlotsPerPeriod = 0)
           => (err = PeriodDriftError <=> InLastSlotsOfPeriod)

C16_Witness ==
    /\ HasCheckpoint /\ Exited
    /\ err = PeriodDriftError
    /\ CheckpointSlot + SlotAdvance < Modulus
    /\ CheckpointSlot % SlotsPerPeriod = SlotsPerPeriod - SlotAdvance
    /\ ~Called("GetSyncCommitteePeriodUpdate")

\* every call of a run returns: a step that can be taken is taken
FairSpec == Spec /\ WF_vars(Next)

\* the position of a statement in its command; the wrapper and the return to
\* cobra come after every statement of the inner function
StageRank(p) ==
    IF p = "exit" THEN Len(BD_Stages) + 2
    ELSE IF p \in {"bd_return", "cp_return"} THEN Len(BD_Stages) + 1
    ELSE IF \E k \in 1 .. Len(BD_Stages) : BD_Stages[k] = p
         THEN CHOOSE k \in 1 .. Len(BD_Stages) : BD_Stages[k] = p
         ELSE CHOOSE k \in 1 .. Len(CP_Stages) : CP_Stages[k] = p

(* C17: every run of either command ends: it reaches the return to cobra,    *)
(* after completion or after an abort, and on the way every step moves to a  *)
(* later statement, so that no statement is visited twice.                   *)
C17_Terminates ==
    /\ <>Exited
    /\ [][StageRank(pc') > StageRank(pc)]_vars

C17_Witness ==
    /\ Exited /\ result = "nil"
    /\ \/ InData /\ activeSpec = "minimal" /\ err = "nil"
             /\ Cardinality(Events("time.Sleep")) = 1
       \/ InCheckpoint /\ err = "nil" /\ Len(stdout) = 1

====
